---- MODULE Spec2Model ----
(***************************************************************************)
(* Model of py4j.signals.Signal (py4j-python/src/py4j/signals.py): a       *)
(* registry of (full_id, receiver) pairs guarded by a non-reentrant        *)
(* threading.Lock, with connect, disconnect and a snapshot-based send.     *)
(*                                                                         *)
(* Python values are encoded as tuples of strings so that values of        *)
(* different Python types are comparable and never equal:                  *)
(*   None -> <<"NoneType">>, "s" -> <<"str", "s">>,                        *)
(*   id(o) -> <<"int", o>>,  (a, b) -> <<"tuple", a, b>>.                  *)
(* Each thread runs a call stack of frames; the top frame is the last      *)
(* element.  Fields named g_* are history (ghost) fields: no code reads    *)
(* them, they only record what happened for the properties below.          *)
(***************************************************************************)
EXTENDS Integers, Sequences, FiniteSets, TLC

VARIABLES receivers, lock, stack, outcome, opsLeft, callers, args, gone,
          registered, wins

vars == <<receivers, lock, stack, outcome, opsLeft, callers, args, gone,
          registered, wins>>

(* ---------------------------- bounds ---------------------------------- *)

\* Number of API calls (top-level or made by receivers) in a run of Spec.
MaxOps == 4

\* Number of API calls in a run of SpecIds (one thread, every argument pair).
MaxIdOps == 3

\* Number of API calls in a run of FairSpec.
MaxLiveOps == 3

Threads == {"t1", "t2"}

(* ------------------------- Python values ------------------------------ *)

None == <<"NoneType">>

Str(s) == <<"str", s>>

id(obj) == <<"int", obj>>

Tuple2(a, b) == <<"tuple", a, b>>

Bool(b) == <<"bool", IF b THEN "True" ELSE "False">>

List(seq) == <<"list", seq>>

\* Truth value of a disambiguator in `if unique_id:`: None and the empty
\* string are falsy, non-empty strings are truthy.
Truthy(v) == v \notin {None, Str("")}

(* --------------------------- receivers -------------------------------- *)

\* f1: plain function (receiver1 of the tests); e3: plain function that
\* always raises (error_receiver3); mA1, mA2: two bound-method objects of
\* the same instance A and function m; mB: the method m bound to instance B.
PlainReceivers == {"f1", "e3"}

MethodReceivers == {"mA1", "mA2", "mB"}

AllReceivers == PlainReceivers \cup MethodReceivers

ismethod(func) == func \in MethodReceivers

SelfOf(func) == IF func = "mB" THEN "B" ELSE "A"

FuncOf(func) == "m"

\* error_receiver3 raises, the other receivers do not raise by themselves.
Fails(r) == r = "e3"

UniqueIds == {None, Str("foo"), Str("")}

\* Argument pairs used by the threads of Spec.
MainArgs == {<<"f1", None>>, <<"mA1", Str("foo")>>, <<"e3", None>>}

\* Argument pairs used under SpecIds.
AllArgs == AllReceivers \X UniqueIds

(* ----------------------- identity resolution -------------------------- *)

make_id_object(func) == id(func)

\* lines 7-10
make_id(func) ==
    IF ismethod(func)
    THEN Tuple2(id(SelfOf(func)), id(FuncOf(func)))
    ELSE id(func)

NONE_ID == id("None")

_get_id(receiver, unique_id) ==
    IF Truthy(unique_id)
    THEN Tuple2(make_id(receiver), unique_id)
    ELSE Tuple2(make_id(receiver), NONE_ID)

\* Every key a call can compute.
AllKeys == {_get_id(a[1], a[2]) : a \in AllArgs}

(* ----------------------------- frames --------------------------------- *)

Unlocked == "unlocked"

NoError == ""

Frame(op, pc, r, u) ==
    [op |-> op, pc |-> pc, receiver |-> r, unique_id |-> u,
     full_id |-> None, index |-> 0, n |-> 0, disconnected |-> FALSE,
     sender |-> "", params |-> "", list |-> <<>>, responses |-> <<>>,
     value |-> None, error |-> NoError,
     g_reg |-> <<>>, g_hit |-> FALSE, g_log |-> <<>>, g_stale |-> FALSE]

NoOutcome ==
    [op |-> "", kind |-> "", value |-> None, error |-> NoError,
     g_dropped |-> <<>>]

Top(t) == stack[t][Len(stack[t])]

HasTop(t) == Len(stack[t]) > 0

SetTop(t, f) == [stack EXCEPT ![t] = [@ EXCEPT ![Len(@)] = f]]

Push(t, f) == [stack EXCEPT ![t] = Append(@, f)]

Pop(t) == [stack EXCEPT ![t] = SubSeq(@, 1, Len(@) - 1)]

At(t, op, pc) == HasTop(t) /\ Top(t).op = op /\ Top(t).pc = pc

Keys(reg) == {reg[i][1] : i \in 1..Len(reg)}

Count(reg, key) == Cardinality({i \in 1..Len(reg) : reg[i][1] = key})

\* del seq[index] with a 0-based index.
Del(seq, index) == SubSeq(seq, 1, index) \o SubSeq(seq, index + 2, Len(seq))

(* ------------------------------ lock ---------------------------------- *)

AcquireAlways(l, t) == TRUE

\* threading.Lock.acquire blocks until the lock is unlocked, whoever holds it.
CanAcquire(l, t) == l = Unlocked

(* ------------------------------ Init ---------------------------------- *)

InitSignal ==
    /\ receivers = <<>>
    /\ lock = Unlocked
    /\ stack = [t \in Threads |-> <<>>]
    /\ outcome = [t \in Threads |-> NoOutcome]
    /\ gone = {}
    /\ registered = {}
    /\ wins = [k \in AllKeys |-> 0]

Init ==
    /\ InitSignal
    /\ opsLeft = MaxOps
    /\ callers = Threads
    /\ args = MainArgs

InitLive ==
    /\ InitSignal
    /\ opsLeft = MaxLiveOps
    /\ callers = Threads
    /\ args = MainArgs

InitIds ==
    /\ InitSignal
    /\ opsLeft = MaxIdOps
    /\ callers = {"t1"}
    /\ args = AllArgs

(* --------------------------- calling ---------------------------------- *)

\* A call is made by a thread with an empty stack or by a running receiver.
CanCall(t) ==
    /\ t \in callers
    /\ opsLeft > 0
    /\ \/ ~HasTop(t)
       \/ At(t, "receiver", "r_body")

CallerOf(t) == IF HasTop(t) THEN Top(t).receiver ELSE t

\* connect, line 44: full_id = self._get_id(receiver, unique_id)
CallConnect(t) ==
    /\ CanCall(t)
    /\ \E a \in args :
         stack' = Push(t, [Frame("connect", "c_lock", a[1], a[2])
                             EXCEPT !.full_id = _get_id(a[1], a[2])])
    /\ opsLeft' = opsLeft - 1
    /\ UNCHANGED <<receivers, lock, outcome, callers, args, gone, registered, wins>>

\* disconnect, lines 64-65: full_id = ...; disconnected = False
CallDisconnect(t) ==
    /\ CanCall(t)
    /\ \E a \in args :
         stack' = Push(t, [Frame("disconnect", "d_lock", a[1], a[2])
                             EXCEPT !.full_id = _get_id(a[1], a[2]),
                                    !.disconnected = FALSE])
    /\ opsLeft' = opsLeft - 1
    /\ UNCHANGED <<receivers, lock, outcome, callers, args, gone, registered, wins>>

\* The sender and the named parameters a caller passes to send.
SenderOf(caller) == caller

KwargsOf(caller) == "param1=" \o caller

\* send, line 89: responses = []
CallSend(t) ==
    /\ CanCall(t)
    /\ stack' = Push(t, [Frame("send", "s_lock", "", None)
                           EXCEPT !.sender = SenderOf(CallerOf(t)),
                                  !.params = KwargsOf(CallerOf(t)),
                                  !.responses = <<>>])
    /\ opsLeft' = opsLeft - 1
    /\ UNCHANGED <<receivers, lock, outcome, callers, args, gone, registered, wins>>

(* ---------------------------- connect --------------------------------- *)

\* line 46: with self.lock (enter)
ConnectLock(t) ==
    /\ At(t, "connect", "c_lock")
    /\ CanAcquire(lock, t)
    /\ lock' = t
    /\ stack' = SetTop(t, [Top(t) EXCEPT !.pc = "c_scan", !.index = 0,
                                         !.g_reg = receivers])
    /\ UNCHANGED <<receivers, outcome, opsLeft, callers, args, gone, registered, wins>>

ConnectMatchNever(receiver_id, full_id) == FALSE

\* line 48: if receiver_id == full_id
ConnectMatch(receiver_id, full_id) == receiver_id = full_id

InsertReceiver(reg, full_id, receiver) == <<<<full_id, receiver>>>> \o reg

\* line 51: self.receivers.append((full_id, receiver))
AppendReceiver(reg, full_id, receiver) == Append(reg, <<full_id, receiver>>)

\* lines 47-51: one iteration of the for loop, or its else clause
ConnectScan(t) ==
    /\ At(t, "connect", "c_scan")
    /\ LET f == Top(t) IN
         IF f.index < Len(receivers)
         THEN IF ConnectMatch(receivers[f.index + 1][1], f.full_id)
              THEN /\ stack' = SetTop(t, [f EXCEPT !.pc = "c_unlock",
                                                   !.g_hit = TRUE])
                   /\ UNCHANGED <<receivers, gone, registered, wins>>
              ELSE /\ stack' = SetTop(t, [f EXCEPT !.index = @ + 1])
                   /\ UNCHANGED <<receivers, gone, registered, wins>>
         ELSE /\ receivers' = AppendReceiver(receivers, f.full_id, f.receiver)
              /\ wins' = [wins EXCEPT ![f.full_id] = 0]
              /\ gone' = gone \ {f.full_id}
              /\ registered' = registered \cup
                                  {<<f.full_id, f.receiver, f.unique_id>>}
              /\ stack' = SetTop(t, [f EXCEPT !.pc = "c_unlock"])
    /\ UNCHANGED <<lock, outcome, opsLeft, callers, args>>

\* line 46: with self.lock (exit); connect returns None
ConnectUnlock(t) ==
    /\ At(t, "connect", "c_unlock")
    /\ lock' = Unlocked
    /\ stack' = SetTop(t, [Top(t) EXCEPT !.pc = "done", !.value = None])
    /\ UNCHANGED <<receivers, outcome, opsLeft, callers, args, gone, registered, wins>>

(* --------------------------- disconnect ------------------------------- *)

\* lines 67-68: with self.lock (enter); range(len(self.receivers)) is
\* evaluated once, before the first iteration
DisconnectLock(t) ==
    /\ At(t, "disconnect", "d_lock")
    /\ CanAcquire(lock, t)
    /\ lock' = t
    /\ stack' = SetTop(t, [Top(t) EXCEPT !.pc = "d_scan", !.index = 0,
                                         !.n = Len(receivers),
                                         !.g_reg = receivers])
    /\ UNCHANGED <<receivers, outcome, opsLeft, callers, args, gone, registered, wins>>

DelOffByOne(seq, index) == Del(seq, index + 1)

DelNothing(seq, index) == seq

\* line 71: del self.receivers[index]
DelReceiver(seq, index) == Del(seq, index)

DisconnectMatchAny(temp_id, full_id) == TRUE

DisconnectMatchReceiver(temp_id, full_id) == temp_id[2] = full_id[2]

\* line 70: if temp_id == full_id
DisconnectMatch(temp_id, full_id) == temp_id = full_id

\* lines 68-73: one iteration of the for loop, or leaving it at the end of
\* the range; self.receivers[index] raises IndexError past the end of the list
DisconnectScan(t) ==
    /\ At(t, "disconnect", "d_scan")
    /\ LET f == Top(t) IN
         IF f.index < f.n
         THEN IF f.index >= Len(receivers)
              THEN /\ stack' = SetTop(t, [f EXCEPT !.pc = "d_unlock",
                                                   !.error = "IndexError"])
                   /\ UNCHANGED <<receivers, gone, registered, wins>>
              ELSE
              IF DisconnectMatch(receivers[f.index + 1][1], f.full_id)
              THEN /\ receivers' = DelReceiver(receivers, f.index)
                   /\ gone' = gone \cup {f.full_id}
                   /\ wins' = [wins EXCEPT ![f.full_id] = @ + 1]
                   /\ registered' = {x \in registered : x[1] # f.full_id}
                   /\ stack' = SetTop(t, [f EXCEPT !.pc = "d_unlock",
                                                   !.disconnected = TRUE,
                                                   !.g_hit = TRUE])
              ELSE /\ stack' = SetTop(t, [f EXCEPT !.index = @ + 1])
                   /\ UNCHANGED <<receivers, gone, registered, wins>>
         ELSE /\ stack' = SetTop(t, [f EXCEPT !.pc = "d_unlock"])
              /\ UNCHANGED <<receivers, gone, registered, wins>>
    /\ UNCHANGED <<lock, outcome, opsLeft, callers, args>>

\* line 67: with self.lock (exit); line 75: return disconnected
DisconnectUnlock(t) ==
    /\ At(t, "disconnect", "d_unlock")
    /\ lock' = Unlocked
    /\ stack' = SetTop(t, IF Top(t).error # NoError
                           THEN [Top(t) EXCEPT !.pc = "raised"]
                           ELSE [Top(t) EXCEPT !.pc = "done",
                                               !.value = Bool(Top(t).disconnected)])
    /\ UNCHANGED <<receivers, outcome, opsLeft, callers, args, gone, registered, wins>>

(* ------------------------------ send ---------------------------------- *)

\* line 99: with self.lock (enter)
GetReceiversLock(t) ==
    /\ At(t, "send", "s_lock")
    /\ CanAcquire(lock, t)
    /\ lock' = t
    /\ stack' = SetTop(t, [Top(t) EXCEPT !.pc = "s_copy", !.index = 0,
                                         !.list = <<>>,
                                         !.g_reg = receivers])
    /\ UNCHANGED <<receivers, outcome, opsLeft, callers, args, gone, registered, wins>>

\* line 100: the list [receiver[1] for receiver in reg]
CopyReceivers(reg) == [i \in 1..Len(reg) |-> reg[i][2]]

CopyNextFront(list, reg, index) == <<reg[index + 1][2]>> \o list

\* line 100: the comprehension adds receiver[1] of the next entry at the end
CopyNext(list, reg, index) == Append(list, reg[index + 1][2])

GetReceiversCopyDrain(t) ==
    /\ At(t, "send", "s_copy")
    /\ LET f == Top(t) IN
         IF Len(receivers) > 0
         THEN /\ stack' = SetTop(t, [f EXCEPT !.list = CopyNext(@, receivers, 0)])
              /\ receivers' = Del(receivers, 0)
         ELSE /\ stack' = SetTop(t, [f EXCEPT !.pc = "s_unlock"])
              /\ UNCHANGED receivers
    /\ UNCHANGED <<lock, outcome, opsLeft, callers, args, gone, registered, wins>>

\* line 100: one iteration of the list comprehension over self.receivers, or
\* its end
GetReceiversCopy(t) ==
    /\ At(t, "send", "s_copy")
    /\ LET f == Top(t) IN
         IF f.index < Len(receivers)
         THEN stack' = SetTop(t, [f EXCEPT
                          !.list = CopyNext(@, receivers, f.index),
                          !.index = @ + 1])
         ELSE stack' = SetTop(t, [f EXCEPT !.pc = "s_unlock"])
    /\ UNCHANGED <<receivers, lock, outcome, opsLeft, callers, args, gone, registered, wins>>

GetReceiversKeepLock(t) ==
    /\ At(t, "send", "s_unlock")
    /\ stack' = SetTop(t, [Top(t) EXCEPT !.pc = "s_loop", !.index = 0])
    /\ UNCHANGED <<receivers, lock, outcome, opsLeft, callers, args, gone, registered, wins>>

\* line 99: with self.lock (exit); line 101: return receivers
GetReceiversUnlock(t) ==
    /\ At(t, "send", "s_unlock")
    /\ lock' = Unlocked
    /\ stack' = SetTop(t, [Top(t) EXCEPT !.pc = "s_loop", !.index = 0])
    /\ UNCHANGED <<receivers, outcome, opsLeft, callers, args, gone, registered, wins>>

\* History: the entry that send is about to invoke has left the registry
\* since the snapshot was taken.
Stale(f, reg) ==
    /\ f.index < Len(f.g_reg)
    /\ f.g_reg[f.index + 1][1] \notin Keys(reg)

DispatchLive(list, reg) == CopyReceivers(reg)

\* line 90: the list the for loop of send iterates over
DispatchList(list, reg) == list

\* lines 90-91: the next receiver of the loop is called with
\* signal=self, sender=sender, **params; line 93: return responses
SendLoop(t) ==
    /\ At(t, "send", "s_loop")
    /\ LET f == Top(t)
           l == DispatchList(f.list, receivers) IN
         IF f.index < Len(l)
         THEN LET r == l[f.index + 1] IN
              stack' = [stack EXCEPT ![t] =
                  Append([@ EXCEPT ![Len(@)] =
                            [f EXCEPT !.g_log =
                                Append(@, <<r, "self", f.sender, f.params>>),
                                      !.g_stale = @ \/ Stale(f, receivers)]],
                         [Frame("receiver", "r_body", r, None)
                            EXCEPT !.sender = f.sender, !.params = f.params])]
         ELSE stack' = SetTop(t, [f EXCEPT !.pc = "done",
                                           !.value = List(f.responses)])
    /\ UNCHANGED <<receivers, lock, outcome, opsLeft, callers, args, gone, registered, wins>>

\* What a receiver returns: it tells which receiver ran and what it was given.
Response(r, sender, params) == <<"result", r, sender, params>>

\* The receiver's body ends: error_receiver3 raises, the others return.
ReceiverEnd(t) ==
    /\ At(t, "receiver", "r_body")
    /\ LET f == Top(t) IN
         IF Fails(f.receiver)
         THEN stack' = SetTop(t, [f EXCEPT !.pc = "raised",
                                           !.error = "BAD RECEIVER"])
         ELSE stack' = SetTop(t, [f EXCEPT !.pc = "done",
                                           !.value = Response(f.receiver,
                                                       f.sender, f.params)])
    /\ UNCHANGED <<receivers, lock, outcome, opsLeft, callers, args, gone, registered, wins>>

SendReceiveSwallow(t) ==
    /\ HasTop(t)
    /\ Top(t).op = "receiver"
    /\ Top(t).pc \in {"done", "raised"}
    /\ LET r == Top(t)
           f == stack[t][Len(stack[t]) - 1]
           g == [f EXCEPT !.responses = Append(@, <<r.receiver, r.value>>),
                          !.index = @ + 1]
       IN stack' = [stack EXCEPT ![t] =
                        Append(SubSeq(@, 1, Len(@) - 2), g)]
    /\ UNCHANGED <<receivers, lock, outcome, opsLeft, callers, args, gone, registered, wins>>

\* lines 91-92: the call of the receiver returns and the pair is appended,
\* or it raises and the error leaves send
SendReceive(t) ==
    /\ HasTop(t)
    /\ Top(t).op = "receiver"
    /\ Top(t).pc \in {"done", "raised"}
    /\ LET r == Top(t)
           f == stack[t][Len(stack[t]) - 1]
           g == IF r.pc = "done"
                THEN [f EXCEPT !.responses = Append(@, <<r.receiver, r.value>>),
                               !.index = @ + 1]
                ELSE [f EXCEPT !.pc = "raised", !.error = r.error]
       IN stack' = [stack EXCEPT ![t] =
                        Append(SubSeq(@, 1, Len(@) - 2), g)]
    /\ UNCHANGED <<receivers, lock, outcome, opsLeft, callers, args, gone, registered, wins>>

(* ---------------------------- returning ------------------------------- *)

OutcomeWithPartial(f) ==
    [op |-> f.op, kind |-> IF f.pc = "done" THEN "return" ELSE "raise",
     value |-> IF f.op = "send" THEN List(f.responses) ELSE f.value,
     error |-> f.error,
     g_dropped |-> IF f.pc = "done" THEN <<>> ELSE f.responses]

\* What the caller gets: the returned value (lines 75, 93), or the error
\* that left the call (line 91), in which case the local list responses is
\* dropped with the frame.
Outcome(f) ==
    [op |-> f.op, kind |-> IF f.pc = "done" THEN "return" ELSE "raise",
     value |-> f.value, error |-> f.error,
     g_dropped |-> IF f.pc = "done" THEN <<>> ELSE f.responses]

Finished(t) ==
    /\ HasTop(t)
    /\ Top(t).op \in {"connect", "disconnect", "send"}
    /\ Top(t).pc \in {"done", "raised"}

\* A call made by a thread returns to the thread.
ReturnToThread(t) ==
    /\ Finished(t)
    /\ Len(stack[t]) = 1
    /\ outcome' = [outcome EXCEPT ![t] = Outcome(Top(t))]
    /\ stack' = Pop(t)
    /\ UNCHANGED <<receivers, lock, opsLeft, callers, args, gone, registered, wins>>

\* A call made by a receiver returns to the receiver, or raises into it and
\* the receiver handles the error.
ReturnToReceiver(t) ==
    /\ Finished(t)
    /\ Len(stack[t]) > 1
    /\ outcome' = [outcome EXCEPT ![t] = Outcome(Top(t))]
    /\ stack' = Pop(t)
    /\ UNCHANGED <<receivers, lock, opsLeft, callers, args, gone, registered, wins>>

\* A call made by a receiver raises and the receiver lets the error through.
RaiseThroughReceiver(t) ==
    /\ Finished(t)
    /\ Len(stack[t]) > 1
    /\ Top(t).pc = "raised"
    /\ outcome' = [outcome EXCEPT ![t] = Outcome(Top(t))]
    /\ LET r == stack[t][Len(stack[t]) - 1] IN
         stack' = [stack EXCEPT ![t] =
                      Append(SubSeq(@, 1, Len(@) - 2),
                             [r EXCEPT !.pc = "raised", !.error = Top(t).error])]
    /\ UNCHANGED <<receivers, lock, opsLeft, callers, args, gone, registered, wins>>

Next ==
    \/ \E t \in Threads : CallConnect(t)
    \/ \E t \in Threads : ConnectLock(t)
    \/ \E t \in Threads : ConnectScan(t)
    \/ \E t \in Threads : ConnectUnlock(t)
    \/ \E t \in Threads : CallDisconnect(t)
    \/ \E t \in Threads : DisconnectLock(t)
    \/ \E t \in Threads : DisconnectScan(t)
    \/ \E t \in Threads : DisconnectUnlock(t)
    \/ \E t \in Threads : CallSend(t)
    \/ \E t \in Threads : GetReceiversLock(t)
    \/ \E t \in Threads : GetReceiversCopy(t)
    \/ \E t \in Threads : GetReceiversUnlock(t)
    \/ \E t \in Threads : SendLoop(t)
    \/ \E t \in Threads : ReceiverEnd(t)
    \/ \E t \in Threads : SendReceive(t)
    \/ \E t \in Threads : ReturnToThread(t)
    \/ \E t \in Threads : ReturnToReceiver(t)
    \/ \E t \in Threads : RaiseThroughReceiver(t)

Spec == Init /\ [][Next]_vars

SpecIds == InitIds /\ [][Next]_vars

\* The steps of the calls and receivers on thread t, all but the decision to
\* make a new call.
Progress(t) ==
    \/ ConnectLock(t) \/ ConnectScan(t) \/ ConnectUnlock(t)
    \/ DisconnectLock(t) \/ DisconnectScan(t) \/ DisconnectUnlock(t)
    \/ GetReceiversLock(t) \/ GetReceiversCopy(t) \/ GetReceiversUnlock(t)
    \/ SendLoop(t) \/ ReceiverEnd(t) \/ SendReceive(t)
    \/ ReturnToThread(t) \/ ReturnToReceiver(t) \/ RaiseThroughReceiver(t)

\* Fair scheduling: a thread that can go on does go on; receivers terminate.
FairSpec ==
    /\ InitLive
    /\ [][Next]_vars
    /\ \A t \in Threads : WF_vars(Progress(t))

(* ------------------------- properties --------------------------------- *)

TopOf(s, t) == s[t][Len(s[t])]

\* Thread t takes the step and its top frame before the step is a frame of op.
StepOf(t, op) == HasTop(t) /\ Top(t).op = op /\ stack'[t] # stack[t]

\* Thread t takes the step, and the frame on top before the step is still
\* there (and on top) after it.
StepIn(t, op) == StepOf(t, op) /\ Len(stack'[t]) = Len(stack[t])

AllFrames == UNION {{stack[t][i] : i \in 1..Len(stack[t])} : t \in Threads}

SendFrames == {f \in AllFrames : f.op = "send"}

\* C1: in every reachable state no two entries of the registry carry the
\* same identity key.
C1_UniqueIdentities ==
    \A i, j \in 1..Len(receivers) :
        receivers[i][1] = receivers[j][1] => i = j

\* Two threads are inside connect for the same key at once and one entry
\* with that key is registered.
C1_Witness ==
    /\ HasTop("t1") /\ HasTop("t2") /\ Top("t1").op = "connect" /\ Top("t2").op = "connect"
    /\ Top("t1").full_id = Top("t2").full_id
    /\ Top("t1").pc = "done" /\ Top("t2").pc = "done"
    /\ Count(receivers, Top("t1").full_id) = 1
    /\ Len(receivers) >= 2

\* C2: a step of connect(r, d) taken while the key of (r, d) is registered
\* leaves the registry exactly as it was, and when connect has finished its
\* scan the registry holds exactly one entry with that key.
C2_IdempotentConnect ==
    [][\A t \in Threads :
         StepIn(t, "connect") =>
            /\ Top(t).full_id \in Keys(receivers) => receivers' = receivers
            /\ TopOf(stack', t).pc \in {"c_unlock", "done"} =>
                  Count(receivers', Top(t).full_id) = 1]_vars

\* A connect found its key registered and left the registry alone.
C2_Witness ==
    \E t \in Threads :
        /\ At(t, "connect", "done")
        /\ Top(t).g_hit
        /\ Top(t).g_reg = receivers
        /\ Count(receivers, Top(t).full_id) = 1

\* The keys in use: those of the registered entries, with the arguments they
\* were registered under, and those computed by the calls in progress.
KeysInUse ==
    registered \cup
    {<<f.full_id, f.receiver, f.unique_id>> :
        f \in {g \in AllFrames : g.op \in {"connect", "disconnect"}}}

\* C3: for every receiver r and every two distinct disambiguators d1 and d2
\* (a caller-supplied value or absent) the identity keys of (r, d1) and
\* (r, d2) differ, so that connect(r, d1); connect(r, d2) gives two entries.
C3_DisambiguatorSeparation ==
    \A x, y \in KeysInUse :
        (x[2] = y[2] /\ x[3] # y[3]) => x[1] # y[1]

\* C4: disconnect(r, d) finds its key exactly when the key is in the registry
\* it scans; it then removes one entry, the key is no longer present, and the
\* key had not been removed by an earlier disconnect without having been
\* registered again; the value returned tells whether the key was found.
C4_DisconnectCorrect ==
    [][\A t \in Threads :
         StepIn(t, "disconnect") =>
            LET f == Top(t)
                g == TopOf(stack', t) IN
            /\ (f.pc = "d_scan" /\ g.pc = "d_unlock") =>
                  /\ g.disconnected <=> f.full_id \in Keys(receivers)
                  /\ g.disconnected =>
                        /\ Len(receivers') = Len(receivers) - 1
                        /\ f.full_id \notin Keys(receivers')
                        /\ f.full_id \notin gone
            /\ f.pc = "d_unlock" =>
                  /\ g.pc = "done"
                  /\ g.value = Bool(f.full_id \in Keys(f.g_reg))]_vars

\* A disconnect returns False for a key that an earlier disconnect removed,
\* while other entries are registered.
C4_Witness ==
    \E t \in Threads :
        /\ At(t, "disconnect", "done")
        /\ Top(t).value = Bool(FALSE)
        /\ Top(t).full_id \in gone
        /\ Len(receivers) >= 1

\* The invocations and the pairs of a send over the registry reg, cut after
\* the first k entries.
ExpectedLog(f, k) ==
    [i \in 1..k |-> <<f.g_reg[i][2], "self", f.sender, f.params>>]

ExpectedResponses(f, k) ==
    [i \in 1..k |->
        <<f.g_reg[i][2], Response(f.g_reg[i][2], f.sender, f.params)>>]

\* C5: a send over a registry of N entries in which no receiver fails has
\* invoked the receiver of each entry exactly once, in registry order, each
\* with the Signal, the same sender and the same params, and returns the N
\* (receiver, result) pairs in that order.
C5_DispatchOrder ==
    \A f \in SendFrames :
        f.pc = "done" =>
            /\ f.g_log = ExpectedLog(f, Len(f.g_reg))
            /\ f.value = List(ExpectedResponses(f, Len(f.g_reg)))

\* A send returned after invoking two different receivers.
C5_Witness ==
    \E f \in SendFrames :
        /\ f.pc = "done"
        /\ Len(f.g_reg) = 2
        /\ f.g_reg[1][2] # f.g_reg[2][2]

\* C6: when the k-th receiver of the snapshot fails, send goes to the error
\* state with that receiver's error and invokes nothing more; in the error
\* state exactly the receivers 1..k have been invoked, once each and in
\* order, and the first k-1 have returned.
C6_FailFast ==
    [][\A t \in Threads :
         /\ (StepOf(t, "receiver") /\ Top(t).pc = "raised") =>
               /\ Len(stack'[t]) = Len(stack[t]) - 1
               /\ TopOf(stack', t).op = "send"
               /\ TopOf(stack', t).pc = "raised"
               /\ TopOf(stack', t).error = Top(t).error
               /\ TopOf(stack', t).g_log = stack[t][Len(stack[t]) - 1].g_log
         /\ (StepOf(t, "send") /\ Top(t).pc = "raised") =>
               LET f == Top(t)
                   k == Len(f.g_log) IN
               /\ Len(stack'[t]) = Len(stack[t]) - 1
               /\ k >= 1 /\ k <= Len(f.g_reg)
               /\ f.g_log = ExpectedLog(f, k)
               /\ f.responses = ExpectedResponses(f, k - 1)]_vars

\* A send is in the error state after its second receiver of three failed.
C6_Witness ==
    \E f \in SendFrames :
        /\ f.pc = "raised"
        /\ Len(f.g_log) = 2
        /\ Len(f.g_reg) = 3

\* C7: whatever connect and disconnect do after a send took its snapshot,
\* the receivers this send invokes are those of the registry at the snapshot,
\* in that order: at any moment the invocations made so far are the first
\* ones of that registry, and all of them when send returns.
C7_SnapshotIsolation ==
    \A f \in SendFrames :
        f.pc \in {"s_loop", "done", "raised"} =>
            /\ Len(f.g_log) <= Len(f.g_reg)
            /\ f.g_log = ExpectedLog(f, Len(f.g_log))
            /\ f.pc = "done" => Len(f.g_log) = Len(f.g_reg)

\* A send returned although one of the entries it invoked had been
\* disconnected before the invocation, and an entry connected after its
\* snapshot is in the registry and was not invoked.
C7_Witness ==
    \E f \in SendFrames :
        /\ f.pc = "done"
        /\ f.g_stale
        /\ \E i \in 1..Len(receivers) :
              /\ receivers[i][1] \notin Keys(f.g_reg)
              /\ \A j \in 1..Len(f.g_log) : f.g_log[j][1] # receivers[i][2]

LockPcs == {"c_lock", "d_lock", "s_lock"}

CriticalPcs == {"c_scan", "c_unlock", "d_scan", "d_unlock", "s_copy", "s_unlock"}

\* C8: no thread waits for the lock while holding it, a thread running a
\* receiver does not hold it, and whoever holds the lock is inside a
\* critical section, which it leaves without waiting for anything.
C8_NoSelfDeadlock ==
    \A t \in Threads :
        /\ (HasTop(t) /\ Top(t).pc \in LockPcs) => lock # t
        /\ lock = t => (HasTop(t) /\ Top(t).pc \in CriticalPcs)

\* A receiver invoked by send has called back into the Signal and that call
\* holds the lock.
C8_Witness ==
    \E t \in Threads :
        /\ Len(stack[t]) >= 3
        /\ Top(t).pc \in CriticalPcs
        /\ lock = t

\* C9: a disconnect(r, d) whose key is not in the registry changes nothing
\* in the registry, raises nothing and returns false.
C9_NotFound ==
    [][\A t \in Threads :
         (StepIn(t, "disconnect") /\ Top(t).pc \in {"d_scan", "d_unlock"}
            /\ Top(t).full_id \notin Keys(Top(t).g_reg)) =>
            LET g == TopOf(stack', t) IN
            /\ receivers' = receivers
            /\ receivers = Top(t).g_reg
            /\ g.pc # "raised" /\ g.error = NoError
            /\ ~g.disconnected
            /\ g.pc = "done" => g.value = Bool(FALSE)]_vars

\* A disconnect scanned a registry of two entries, did not find its key and
\* returned False.
C9_Witness ==
    \E t \in Threads :
        /\ At(t, "disconnect", "done")
        /\ Top(t).value = Bool(FALSE)
        /\ Len(Top(t).g_reg) = 2
        /\ receivers = Top(t).g_reg

\* C10: when a receiver fails during send, what send hands to its caller is
\* the error and no value: none of the pairs accumulated before the failure.
C10_OnlyError ==
    \A t \in Threads :
        outcome[t].kind = "raise" =>
            /\ outcome[t].error # NoError
            /\ outcome[t].value = None

\* The caller of a send got the error after one receiver had returned.
C10_Witness ==
    \E t \in Threads :
        /\ outcome[t].op = "send"
        /\ outcome[t].kind = "raise"
        /\ Len(outcome[t].g_dropped) >= 1

\* C11: a thread that runs a receiver for send does not hold the lock; send
\* holds the lock only while it copies the receiver list, before it has
\* invoked any receiver.
C11_ReceiverOutsideLock ==
    \A t \in Threads :
        HasTop(t) =>
            /\ Top(t).op = "receiver" => lock # t
            /\ (Top(t).op = "send" /\ lock = t) =>
                  /\ Top(t).pc \in {"s_copy", "s_unlock"}
                  /\ Top(t).g_log = <<>>

\* A receiver runs on one thread while the other thread holds the lock.
C11_Witness ==
    \E t, u \in Threads :
        /\ At(t, "receiver", "r_body")
        /\ u # t
        /\ lock = u

InCritical(t) == HasTop(t) /\ Top(t).pc \in CriticalPcs

\* C12: a thread that scans, appends to, removes from or copies the registry
\* holds the lock, and at most one thread is in such a critical section.
C12_MutualExclusion ==
    /\ \A t \in Threads : InCritical(t) => lock = t
    /\ Cardinality({t \in Threads : InCritical(t)}) <= 1

\* A thread is in the middle of a scan while the other waits for the lock.
C12_Witness ==
    \E t, u \in Threads :
        /\ InCritical(t)
        /\ Top(t).index >= 1
        /\ HasTop(u)
        /\ Top(u).pc \in LockPcs

\* C13: the list a send dispatches to is the list of the receivers of the
\* registry as it stood when send took the lock, in registry order; while it
\* is being copied the registry does not change.
C13_ConsistentSnapshot ==
    \A f \in SendFrames :
        /\ f.pc = "s_copy" =>
              /\ receivers = f.g_reg
              /\ f.list = CopyReceivers(SubSeq(f.g_reg, 1, f.index))
        /\ f.pc \in {"s_unlock", "s_loop", "done", "raised"} =>
              f.list = CopyReceivers(f.g_reg)

\* A send dispatches to a snapshot of two receivers after the registry has
\* changed.
C13_Witness ==
    \E f \in SendFrames :
        /\ f.pc = "s_loop"
        /\ Len(f.list) = 2
        /\ f.index = 1
        /\ receivers # f.g_reg

\* C14: a step of connect(r, d) leaves the registry as it is or appends the
\* entry (key, r) at its end, the key not being registered; a connect whose
\* key is not registered ends its scan with the registry it found plus that
\* entry at the end; connect raises nothing.
C14_ConnectAppends ==
    [][\A t \in Threads :
         StepIn(t, "connect") =>
            LET f == Top(t)
                g == TopOf(stack', t)
                e == <<f.full_id, f.receiver>> IN
            /\ \/ receivers' = receivers
               \/ /\ f.full_id \notin Keys(receivers)
                  /\ receivers' = Append(receivers, e)
            /\ (f.pc = "c_scan" /\ g.pc = "c_unlock"
                   /\ f.full_id \notin Keys(f.g_reg)) =>
                  receivers' = Append(f.g_reg, e)
            /\ g.pc # "raised" /\ g.error = NoError]_vars

\* A connect has appended its entry after two entries that stayed in place.
C14_Witness ==
    \E t \in Threads :
        /\ At(t, "connect", "done")
        /\ ~Top(t).g_hit
        /\ Len(Top(t).g_reg) = 2
        /\ receivers = Append(Top(t).g_reg, <<Top(t).full_id, Top(t).receiver>>)

\* The registry reg without the entries of key.
Without(reg, key) ==
    LET Keep(e) == e[1] # key IN SelectSeq(reg, Keep)

C17_NoEntryOutlives ==
    [][/\ \A k \in gone' : k \notin Keys(receivers')
       /\ \A t \in Threads :
            (StepIn(t, "send") /\ Top(t).pc = "s_copy"
               /\ Len(TopOf(stack', t).list) > Len(Top(t).list)) =>
               LET e == receivers[Top(t).index + 1]
                   l == TopOf(stack', t).list IN
               /\ e[1] \notin gone
               /\ l[Len(l)] = e[2]]_vars

\* A disconnect has returned True and a send takes its snapshot, of one
\* entry at least, while the removed key is still unregistered.
C17_Witness ==
    /\ gone # {}
    /\ \E u \in Threads :
          /\ outcome[u].op = "disconnect"
          /\ outcome[u].value = Bool(TRUE)
    /\ \E f \in SendFrames :
          /\ f.pc = "s_unlock"
          /\ Len(f.list) >= 1

SameMethod(r1, r2) == SelfOf(r1) = SelfOf(r2) /\ FuncOf(r1) = FuncOf(r2)

\* The keys in use are those of bound methods resolved as C18 says.
BoundMethodKeys(keys) ==
    /\ \A x \in keys :
          ismethod(x[2]) =>
             x[1][2] = Tuple2(id(SelfOf(x[2])), id(FuncOf(x[2])))
    /\ \A x, y \in keys :
          (ismethod(x[2]) /\ ismethod(y[2])) =>
             /\ (SameMethod(x[2], y[2]) /\ x[3] = y[3]) => x[1] = y[1]
             /\ ~SameMethod(x[2], y[2]) => x[1] # y[1]

\* C18: a bound method resolves to the pair (identity of the instance,
\* identity of the function): two bound-method objects of the same instance
\* and function get the same key, and connecting the second leaves the
\* registry alone; the method of another instance gets another key; making
\* a call, identity resolution included, changes nothing in the registry.
C18_BoundMethodIdentity ==
    [][/\ BoundMethodKeys(KeysInUse')
       /\ \A t \in Threads :
            /\ Len(stack'[t]) > Len(stack[t]) => receivers' = receivers
            /\ (StepIn(t, "connect") /\ ismethod(Top(t).receiver)
                  /\ \E x \in registered :
                        /\ ismethod(x[2])
                        /\ SameMethod(x[2], Top(t).receiver)
                        /\ x[3] = Top(t).unique_id) =>
                  receivers' = receivers]_vars

\* A second bound-method object of instance A was connected and found the
\* entry of the first; the method of instance B has an entry of its own.
C18_Witness ==
    \E t \in Threads :
        /\ At(t, "connect", "done")
        /\ Top(t).receiver = "mA2"
        /\ Top(t).g_hit
        /\ <<Top(t).full_id, "mA1", Top(t).unique_id>> \in registered
        /\ \E x \in registered : x[2] = "mB" /\ x[3] = Top(t).unique_id
        /\ Len(receivers) = 2

DisconnectDecided(t) ==
    /\ HasTop(t)
    /\ Top(t).op = "disconnect"
    /\ Top(t).pc \in {"d_unlock", "done"}

\* C19: of the disconnect calls for a key made since the key was last
\* registered at most one, and one if the key has been removed, has found
\* it; a disconnect finds its key exactly when the key was registered when it
\* took the lock.
C19_OneWinner ==
    /\ \A k \in AllKeys :
          /\ wins[k] <= 1
          /\ wins[k] = 1 <=> k \in gone
    /\ \A t \in Threads :
          DisconnectDecided(t) =>
             (Top(t).disconnected <=> Top(t).full_id \in Keys(Top(t).g_reg))

\* Two threads are in disconnect for the same key, registered once: one has
\* found it and the other has not.
C19_Witness ==
    \E t, u \in Threads :
        /\ t # u
        /\ DisconnectDecided(t) /\ DisconnectDecided(u)
        /\ Top(t).full_id = Top(u).full_id
        /\ Top(t).disconnected /\ ~Top(u).disconnected
        /\ Top(t).pc = "done" /\ Top(u).pc = "done"
        /\ wins[Top(t).full_id] = 1

\* C20: the steps of send and of the receivers it runs leave the registry as
\* it is: the registry changes only in a step of a connect or a disconnect
\* call; a send that has returned or ended with an error does not hold the
\* lock.
C20_SendFrame ==
    [][/\ receivers' # receivers =>
             \E t \in Threads :
                 StepIn(t, "connect") \/ StepIn(t, "disconnect")
       /\ \A t \in Threads :
            /\ (StepOf(t, "send") \/ StepOf(t, "receiver")) =>
                  receivers' = receivers
            /\ (StepOf(t, "send") /\ Top(t).pc \in {"done", "raised"}) =>
                  (lock # t /\ lock' # t)]_vars

\* A send ended with the error of its second receiver; the registry is the
\* one it found and the lock is free.
C20_Witness ==
    \E t \in Threads :
        /\ At(t, "send", "raised")
        /\ Len(Top(t).responses) = 1
        /\ receivers = Top(t).g_reg
        /\ lock = Unlocked

====
